---- MODULE Spec2Model ----
(***************************************************************************)
(* Model of the Supabase extraction and reconstruction engine              *)
(* (src/src/extractor.ts, class SupabaseExtractor, lines 377-845) and of   *)
(* the command-line run that drives it (src/unnamed/part_001, main).       *)
(*                                                                         *)
(* Text is a sequence of fragments.  Every character that comes from data  *)
(* (a table, schema or column name, a string cell, a catalog type name) is *)
(* a one-character fragment; every literal of the code is one fragment.    *)
(***************************************************************************)
EXTENDS Integers, Sequences, FiniteSets, TLC

VARIABLES
    databaseUrl,  \* config.databaseUrl is set
    db,           \* the remote database: the tables of its catalog
    pc,           \* position of the single asynchronous flow
    tables,       \* main: result of discoverTables
    columnTypes,  \* this.columnTypes
    allData,      \* extractAllData: allData
    ti,           \* extractAllData: position of the column-type loop
    xi,           \* extractAllData: position of the extraction loop
    allRows,      \* extractTableData: allRows
    offset,       \* extractTableData: offset
    hasMore,      \* extractTableData: hasMore
    pageLog,      \* page requests sent to the restricted API, in order
    outstanding,  \* page requests sent and not yet answered
    requests,     \* every remote request that has ended, with its outcome
    client,       \* state of the PgClient of the operation in progress
    openConns,    \* privileged connections currently open on the server
    exc,          \* the error that is propagating, NoError when none
    ret,          \* value the operation in progress is about to return
    sql,          \* generateReconstructionSQL: sql
    schemaSQL,    \* extractSchema: sql
    qi,           \* extractSchema: position of the table loop
    files,        \* output files written by main
    exitCode,     \* process exit status, -1 while running
    consoleLog,   \* the lines the error handlers write to the console
    call,         \* a direct call of a public or pure operation: its arguments
    result        \* the result of that call

vars == <<databaseUrl, db, pc, tables, columnTypes, allData, ti, xi, allRows,
          offset, hasMore, pageLog, outstanding, requests, client, openConns,
          exc, ret, sql, schemaSQL, qi, files, exitCode, consoleLog, call,
          result>>

----------------------------------------------------------------------------
(* Bounds of the model *)

MaxTables == 2      \* tables in the catalog of a run
MaxRows == 2        \* rows of a table in a full run
MaxPages == 2       \* full pages of a table in the pagination runs
MaxLen == 3         \* characters of a string or identifier in the direct calls

(* Program constants *)

limit == 1000

----------------------------------------------------------------------------
(* Text *)

Min(a, b) == IF a < b THEN a ELSE b

RECURSIVE Join(_, _)
Join(parts, sep) ==
    IF parts = <<>> THEN <<>>
    ELSE IF Len(parts) = 1 THEN parts[1]
    ELSE parts[1] \o sep \o Join(Tail(parts), sep)

RECURSIVE Concat(_)
Concat(parts) == IF parts = <<>> THEN <<>> ELSE parts[1] \o Concat(Tail(parts))

\* String.prototype.replace(c, rep), without the g flag
RECURSIVE replaceFirst(_, _, _)
replaceFirst(s, c, rep) ==
    IF s = <<>> THEN <<>>
    ELSE IF s[1] = c THEN rep \o Tail(s)
    ELSE <<s[1]>> \o replaceFirst(Tail(s), c, rep)

\* String.prototype.replace(/c/g, rep)
RECURSIVE replaceAll(_, _, _)
replaceAll(s, c, rep) ==
    IF s = <<>> THEN <<>>
    ELSE (IF s[1] = c THEN rep ELSE <<s[1]>>) \o replaceAll(Tail(s), c, rep)

\* s === suffix
endsWith_Whole(s, suffix) == s = suffix

\* String.prototype.endsWith
endsWith(s, suffix) ==
    /\ Len(s) >= Len(suffix)
    /\ SubSeq(s, Len(s) - Len(suffix) + 1, Len(s)) = suffix

Digits == <<"0", "1", "2", "3", "4", "5", "6", "7", "8", "9">>

RECURSIVE NatToText(_)
NatToText(n) ==
    IF n < 10 THEN <<Digits[n + 1]>>
    ELSE NatToText(n \div 10) \o <<Digits[(n % 10) + 1]>>

\* Number.prototype.toString of an integer
IntToText(n) == IF n < 0 THEN <<"-">> \o NatToText(0 - n) ELSE NatToText(n)

SQ == "'"
DQ == "\""
NL == "\n"

----------------------------------------------------------------------------
(* Values of the data model.  One record shape for every kind:             *)
(*   kind  the JavaScript kind of the value                                *)
(*   txt   the characters of a string, the ISO text of a date, the text    *)
(*         String() gives for a bigint, symbol or function, the key of an  *)
(*         object entry                                                    *)
(*   num   the value of a finite number, 1/0 for true/false and for a      *)
(*         valid/invalid date                                              *)
(*   items the elements of an array, the entries of an object, the value   *)
(*         of an entry                                                     *)

Val(k, t, n, i) == [kind |-> k, txt |-> t, num |-> n, items |-> i]

Null == Val("null", <<>>, 0, <<>>)
Undefined == Val("undefined", <<>>, 0, <<>>)
Str(s) == Val("string", s, 0, <<>>)
Bool(b) == Val("boolean", <<>>, IF b THEN 1 ELSE 0, <<>>)
Num(n) == Val("number", <<>>, n, <<>>)
NaN == Val("NaN", <<>>, 0, <<>>)
PosInfinity == Val("Infinity", <<>>, 0, <<>>)
NegInfinity == Val("-Infinity", <<>>, 0, <<>>)
DateOf(iso) == Val("date", iso, 1, <<>>)
InvalidDate == Val("date", <<>>, 0, <<>>)
Arr(items) == Val("array", <<>>, 0, items)
Entry(key, v) == Val("entry", key, 0, <<v>>)
Obj(entries) == Val("object", <<>>, 0, entries)
\* an object that contains itself
Cyclic == Val("cyclic", <<>>, 0, <<>>)
BigInt(n) == Val("bigint", IntToText(n), n, <<>>)
Symbol == Val("symbol", <<"Symbol()">>, 0, <<>>)
Function == Val("function", <<"() => {}">>, 0, <<>>)

\* typeof value
typeof(v) ==
    CASE v.kind = "undefined" -> "undefined"
      [] v.kind = "string" -> "string"
      [] v.kind = "boolean" -> "boolean"
      [] v.kind \in {"number", "NaN", "Infinity", "-Infinity"} -> "number"
      [] v.kind \in {"null", "date", "array", "object", "cyclic"} -> "object"
      [] v.kind = "bigint" -> "bigint"
      [] v.kind = "symbol" -> "symbol"
      [] v.kind = "function" -> "function"

\* Object.keys(row) and row[col]
keys(row) == [i \in 1..Len(row.items) |-> row.items[i].txt]
get_First(row, i) == row.items[1].items[1]
get(row, i) == row.items[i].items[1]

\* no error is propagating
NoError == "none"

\* The result of a call that may raise
Return(t) == [threw |-> FALSE, text |-> t]
Throw == [threw |-> TRUE, text |-> <<>>]

----------------------------------------------------------------------------
(* JavaScript conversions used by formatValue *)

\* String(value)
RECURSIVE String(_)
String(v) ==
    CASE v.kind = "null" -> <<"null">>
      [] v.kind = "undefined" -> <<"undefined">>
      [] v.kind = "string" -> v.txt
      [] v.kind = "boolean" -> IF v.num = 1 THEN <<"true">> ELSE <<"false">>
      [] v.kind = "number" -> IntToText(v.num)
      [] v.kind = "NaN" -> <<"NaN">>
      [] v.kind = "Infinity" -> <<"Infinity">>
      [] v.kind = "-Infinity" -> <<"-Infinity">>
      [] v.kind = "date" -> IF v.num = 1 THEN <<"Date(">> \o v.txt \o <<")">>
                            ELSE <<"Invalid Date">>
      [] v.kind = "array" ->
            Join([i \in 1..Len(v.items) |->
                    IF v.items[i].kind \in {"null", "undefined"} THEN <<>>
                    ELSE String(v.items[i])], <<",">>)
      [] v.kind \in {"object", "cyclic"} -> <<"[object Object]">>
      [] v.kind \in {"bigint", "symbol", "function"} -> v.txt

\* Date.prototype.toISOString: raises RangeError on an invalid time value
toISOString(v) == IF v.num = 1 THEN Return(v.txt) ELSE Throw

\* The quoting JSON.stringify applies to a string
JSONquote(s) ==
    <<DQ>> \o Concat([i \in 1..Len(s) |->
                CASE s[i] = DQ -> <<"\\", DQ>>
                  [] s[i] = "\\" -> <<"\\", "\\">>
                  [] s[i] = NL -> <<"\\", "n">>
                  [] OTHER -> <<s[i]>>]) \o <<DQ>>

\* JSON.stringify(value): text, or omit (the value has no JSON form and is
\* left out of an object, written null in an array), or threw
RECURSIVE JSONstringify(_)
JSONstringify(v) ==
    LET Text(t) == [threw |-> FALSE, omit |-> FALSE, text |-> t]
        Omit == [threw |-> FALSE, omit |-> TRUE, text |-> <<>>]
        Raise == [threw |-> TRUE, omit |-> FALSE, text |-> <<>>]
    IN CASE v.kind = "null" -> Text(<<"null">>)
         [] v.kind \in {"undefined", "symbol", "function"} -> Omit
         [] v.kind = "string" -> Text(JSONquote(v.txt))
         [] v.kind = "boolean" -> Text(IF v.num = 1 THEN <<"true">> ELSE <<"false">>)
         [] v.kind = "number" -> Text(IntToText(v.num))
         [] v.kind \in {"NaN", "Infinity", "-Infinity"} -> Text(<<"null">>)
         [] v.kind = "date" -> IF v.num = 1 THEN Text(JSONquote(v.txt))
                               ELSE Text(<<"null">>)
         [] v.kind \in {"bigint", "cyclic"} -> Raise
         [] v.kind = "array" ->
               LET rs == [i \in 1..Len(v.items) |-> JSONstringify(v.items[i])]
               IN IF \E i \in 1..Len(rs) : rs[i].threw THEN Raise
                  ELSE Text(<<"[">> \o
                            Join([i \in 1..Len(rs) |->
                                    IF rs[i].omit THEN <<"null">> ELSE rs[i].text],
                                 <<",">>) \o <<"]">>)
         [] v.kind = "object" ->
               LET rs == [i \in 1..Len(v.items) |->
                            JSONstringify(v.items[i].items[1])]
                   kept == SelectSeq([i \in 1..Len(rs) |-> i],
                                     LAMBDA i : ~rs[i].omit)
               IN IF \E i \in 1..Len(rs) : rs[i].threw THEN Raise
                  ELSE Text(<<"{">> \o
                            Join([j \in 1..Len(kept) |->
                                    JSONquote(v.items[kept[j]].txt) \o <<":">> \o
                                    rs[kept[j]].text],
                                 <<",">>) \o <<"}">>)

----------------------------------------------------------------------------
(* Value Formatter and Identifier Quoter *)

\* an argument that was not passed / Map.get of a missing key
NoArg == <<"<undefined>">>

\* this.columnTypes.get(tableName)?.get(columnName)
columnTypeOf(tableName, columnName) ==
    IF tableName = NoArg \/ tableName = <<>> THEN tableName
    ELSE IF columnName = NoArg \/ columnName = <<>> THEN columnName
    ELSE IF tableName \notin DOMAIN columnTypes THEN NoArg
    ELSE IF columnName \notin DOMAIN columnTypes[tableName] THEN NoArg
    ELSE columnTypes[tableName][columnName]

\* catch (e) of the JSON branch: the warning and return "NULL"
OnJsonError_Rethrow == Throw
OnJsonError == Return(<<"NULL">>)

\* Number.isFinite(value), for a value whose typeof is number
NumberIsFinite_NotNaN(value) == value.kind # "NaN"
NumberIsFinite(value) == value.kind = "number"

formatValue(value, tableName, columnName) ==
    IF value.kind \in {"null", "undefined"} THEN Return(<<"NULL">>)
    ELSE IF typeof(value) = "string" THEN
        Return(<<SQ>> \o replaceAll(value.txt, SQ, <<SQ, SQ>>) \o <<SQ>>)
    ELSE IF typeof(value) = "boolean" THEN
        Return(IF value.num = 1 THEN <<"TRUE">> ELSE <<"FALSE">>)
    ELSE IF typeof(value) = "number" THEN
        IF ~NumberIsFinite(value) THEN Return(<<"NULL">>)
        ELSE Return(IntToText(value.num))
    ELSE IF value.kind = "date" THEN
        LET iso == toISOString(value)
        IN IF iso.threw THEN Throw
           ELSE Return(<<SQ>> \o iso.text \o <<SQ>>)
    ELSE IF typeof(value) = "object" THEN
        LET columnType == columnTypeOf(tableName, columnName)
            isArrayColumn == columnType # NoArg /\ endsWith(columnType, <<"[", "]">>)
        IN IF isArrayColumn /\ value.kind = "array" THEN
               LET escapedItems == [i \in 1..Len(value.items) |->
                       <<SQ>> \o replaceAll(String(value.items[i]), SQ, <<SQ, SQ>>)
                              \o <<SQ>>]
               IN Return(<<"ARRAY[">> \o Join(escapedItems, <<",">>) \o <<"]::">>
                         \o columnType)
           ELSE
               LET jsonStr == JSONstringify(value)
               IN IF jsonStr.threw \/ jsonStr.omit THEN OnJsonError
                  ELSE Return(<<SQ>> \o replaceAll(jsonStr.text, SQ, <<SQ, SQ>>)
                              \o <<SQ, "::jsonb">>)
    ELSE Return(<<SQ>> \o replaceAll(String(value), SQ, <<SQ, SQ>>) \o <<SQ>>)

quoteIdentifier_NoEscape(identifier) == <<DQ>> \o identifier \o <<DQ>>
quoteIdentifier(identifier) ==
    <<DQ>> \o replaceAll(identifier, DQ, <<DQ, DQ>>) \o <<DQ>>

----------------------------------------------------------------------------
(* Reconstruction Script Generator *)

\* a Map / Record: a function whose domain is the set of keys
EmptyMap == [k \in {} |-> <<>>]
MapSet(m, key, v) == [k \in DOMAIN m \cup {key} |-> IF k = key THEN v ELSE m[k]]

\* One INSERT statement of generateInsertStatements (the body of the row loop)
InsertStatement(table, row) ==
    LET columns == keys(row)
        values == [i \in 1..Len(columns) |->
                     formatValue(get(row, i), table.name, columns[i])]
    IN IF \E i \in 1..Len(values) : values[i].threw THEN Throw
       ELSE Return(
            <<"INSERT INTO ">> \o quoteIdentifier(table.schema) \o <<".">>
              \o quoteIdentifier(table.name) \o <<" (">>
              \o Join([i \in 1..Len(columns) |-> quoteIdentifier(columns[i])],
                      <<", ">>)
              \o <<") VALUES (">>
              \o Join([i \in 1..Len(values) |-> values[i].text], <<", ">>)
              \o <<");", NL>>)

\* The text generateInsertStatements appends for one table (the body of the
\* table loop)
TableSection_DropFirst(table, data, includeDropStatements) ==
    LET tableData == IF table.name \in DOMAIN data THEN data[table.name] ELSE <<>>
        stmts == [r \in 1..Len(tableData) |-> InsertStatement(table, tableData[r])]
        drop == IF includeDropStatements THEN
                    <<"DROP TABLE IF EXISTS ">> \o quoteIdentifier(table.schema)
                      \o <<".">> \o quoteIdentifier(table.name)
                      \o <<" CASCADE;", NL>>
                      \o <<"-- Table: ">> \o table.schema \o <<".">>
                      \o table.name \o <<NL>>
                ELSE <<>>
    IN IF table.name \notin DOMAIN data \/ Len(tableData) = 0 THEN
           Return(drop \o <<"-- No data for table: ">> \o table.name \o <<NL, NL>>)
       ELSE IF \E r \in 1..Len(stmts) : stmts[r].threw THEN Throw
       ELSE Return(drop
                   \o <<"-- Data for table: ">> \o table.name \o <<NL>>
                   \o <<"-- Rows: ">> \o IntToText(Len(tableData)) \o <<NL, NL>>
                   \o Concat([r \in 1..Len(stmts) |-> stmts[r].text])
                   \o <<NL>>)
TableSection(table, data, includeDropStatements) ==
    LET tableData == IF table.name \in DOMAIN data THEN data[table.name] ELSE <<>>
    IN IF table.name \notin DOMAIN data \/ Len(tableData) = 0 THEN
           Return(<<"-- No data for table: ">> \o table.name \o <<NL, NL>>)
       ELSE
           LET stmts == [r \in 1..Len(tableData) |->
                           InsertStatement(table, tableData[r])]
           IN IF \E r \in 1..Len(stmts) : stmts[r].threw THEN Throw
              ELSE Return(
                   (IF includeDropStatements THEN
                        <<"DROP TABLE IF EXISTS ">> \o quoteIdentifier(table.schema)
                          \o <<".">> \o quoteIdentifier(table.name)
                          \o <<" CASCADE;", NL>>
                          \o <<"-- Table: ">> \o table.schema \o <<".">>
                          \o table.name \o <<NL>>
                    ELSE <<>>)
                   \o <<"-- Data for table: ">> \o table.name \o <<NL>>
                   \o <<"-- Rows: ">> \o IntToText(Len(tableData)) \o <<NL, NL>>
                   \o Concat([r \in 1..Len(stmts) |-> stmts[r].text])
                   \o <<NL>>)

generateInsertStatements_LastFirst(tabs, data, includeDropStatements) ==
    LET secs == [i \in 1..Len(tabs) |->
                    TableSection(tabs[Len(tabs) + 1 - i], data, includeDropStatements)]
    IN IF \E i \in 1..Len(secs) : secs[i].threw THEN Throw
       ELSE Return(Concat([i \in 1..Len(secs) |-> secs[i].text]))
generateInsertStatements(tabs, data, includeDropStatements) ==
    LET secs == [i \in 1..Len(tabs) |->
                    TableSection(tabs[i], data, includeDropStatements)]
    IN IF \E i \in 1..Len(secs) : secs[i].threw THEN Throw
       ELSE Return(Concat([i \in 1..Len(secs) |-> secs[i].text]))

\* new Date().toISOString() of the header
Now == <<"2024-01-01T00:00:00.000Z">>

\* generateReconstructionSQL: the text before the schema section
Header ==
    <<"-- Database Reconstruction Script", NL,
      "-- Generated: ">> \o Now \o <<NL, NL,
      "-- Note: The following session_replication_role commands require superuser privileges", NL,
      "-- and have been commented out. Uncomment if you have appropriate permissions.", NL,
      "-- SET session_replication_role = replica;", NL, NL>>

\* generateReconstructionSQL: the text written when databaseUrl is not set
Placeholder ==
    <<"-- Note: Schema extraction requires DATABASE_URL to be set.", NL,
      "-- Only data INSERT statements are included below.", NL, NL>>

\* generateReconstructionSQL: the text after the data sections
Footer ==
    <<NL, "-- Re-enable triggers and constraints", NL,
      "-- SET session_replication_role = DEFAULT;", NL>>

----------------------------------------------------------------------------
(* The remote database, as the two access paths show it.  db is the         *)
(* sequence of base tables of the public schema in catalog storage order,   *)
(* each [name, schema, size]; the rows and columns of a table are fixed by  *)
(* its name.                                                                *)

Public == <<"p", "u", "b", "l", "i", "c">>

TUsers == <<"u", "s">>
TTags == <<"t", DQ, "g">>
TNotes == <<"x", NL, "y">>
TBig == <<"p">>
TLarge == <<"q">>

CId == <<"i", "d">>
CName == <<"n">>
CLabels == <<"l", DQ>>
CMeta == <<"m">>
CFlag == <<"f">>

\* the row stored at position i (from 1) of a table
RowAt(name, i) ==
    CASE name = TUsers ->
            Obj(<<Entry(CId, Num(i)),
                  Entry(CName, Str(IF i % 2 = 1 THEN <<"A">> ELSE <<"O", SQ, "B">>))>>)
      [] name = TTags ->
            Obj(<<Entry(CId, Num(i)),
                  Entry(CLabels, Arr(<<Str(<<"a">>), Str(<<"b", SQ>>)>>))>>)
      [] name = TNotes ->
            IF i % 2 = 1
            THEN Obj(<<Entry(CFlag, Bool(TRUE)),
                       Entry(CMeta, Obj(<<Entry(<<"k">>, Null)>>))>>)
            ELSE Obj(<<Entry(CMeta, Null)>>)
      [] OTHER -> Obj(<<Entry(CId, Num(i))>>)

TypeInteger == <<"i", "n", "t", "e", "g", "e", "r">>
TypeText == <<"t", "e", "x", "t">>
TypeArray == <<"A", "R", "R", "A", "Y">>
TypeJsonb == <<"j", "s", "o", "n", "b">>
TypeBoolean == <<"b", "o", "o", "l", "e", "a", "n">>
TypeTextArray == <<"t", "e", "x", "t", "[", "]">>

Column(n, t, nullable) == [column_name |-> n, data_type |-> t, is_nullable |-> nullable]

\* the rows of information_schema.columns for a table
TableColumns(name) ==
    CASE name = TUsers -> <<Column(CId, TypeInteger, FALSE), Column(CName, TypeText, TRUE)>>
      [] name = TTags -> <<Column(CId, TypeInteger, FALSE), Column(CLabels, TypeArray, TRUE)>>
      [] name = TNotes -> <<Column(CFlag, TypeBoolean, TRUE), Column(CMeta, TypeJsonb, TRUE)>>
      [] OTHER -> <<Column(CId, TypeInteger, FALSE)>>

Range(f) == {f[i] : i \in DOMAIN f}

\* ORDER BY table_name: code point order of the characters used in names
CharOrder == <<NL, DQ, SQ, "g", "p", "q", "s", "t", "u", "x", "y">>
Rank(c) == CHOOSE i \in 1..Len(CharOrder) : CharOrder[i] = c

RECURSIVE LexLess(_, _)
LexLess(a, b) ==
    IF a = <<>> THEN b # <<>>
    ELSE IF b = <<>> THEN FALSE
    ELSE IF a[1] = b[1] THEN LexLess(Tail(a), Tail(b))
    ELSE Rank(a[1]) < Rank(b[1])

RECURSIVE SortByName(_)
SortByName(rows) ==
    IF rows = <<>> THEN <<>>
    ELSE LET m == CHOOSE i \in 1..Len(rows) :
                    \A j \in 1..Len(rows) : j = i \/ LexLess(rows[i].name, rows[j].name)
         IN <<rows[m]>> \o SortByName(SubSeq(rows, 1, m - 1) \o SubSeq(rows, m + 1, Len(rows)))

\* discoverTablesViaPg: the rows of the catalog query, mapped to TableInfo
CatalogTables ==
    LET rows == SortByName(db)
    IN [i \in 1..Len(rows) |-> [name |-> rows[i].name, schema |-> rows[i].schema]]

\* discoverTablesViaSupabase: the rows get_all_tables returns, mapped to
\* TableInfo; withSchema says whether the rows carry table_schema
RpcTables_NoDefault(withSchema) ==
    [i \in 1..Len(db) |->
        [name |-> db[i].name,
         schema |-> IF withSchema THEN db[i].schema ELSE NoArg]]
RpcTables(withSchema) ==
    [i \in 1..Len(db) |->
        [name |-> db[i].name,
         schema |-> IF withSchema THEN db[i].schema ELSE Public]]

\* fetchColumnTypes: the typeMap built from the rows of the column query
ColumnTypeMap(tableName, schema) ==
    IF \E e \in Range(db) : e.name = tableName /\ e.schema = schema
    THEN LET cols == TableColumns(tableName)
         IN [c \in {cols[i].column_name : i \in 1..Len(cols)} |->
                (CHOOSE x \in Range(cols) : x.column_name = c).data_type]
    ELSE EmptyMap

\* the restricted API: rows from..to (from 0, both ends included) of a table
Page(tableName, from, to) ==
    IF \E e \in Range(db) : e.name = tableName
    THEN LET size == (CHOOSE e \in Range(db) : e.name = tableName).size
             n == Min(to + 1, size) - from
         IN IF n <= 0 THEN <<>> ELSE [j \in 1..n |-> RowAt(tableName, from + j)]
    ELSE <<>>

\* the whole content of a table, in storage order
TableRows(tableName) ==
    LET size == (CHOOSE e \in Range(db) : e.name = tableName).size
    IN [j \in 1..size |-> RowAt(tableName, j)]

----------------------------------------------------------------------------
(* Schema Introspector: what the catalog queries of extractSchema return *)

Lower == {"a", "b", "c", "d", "e", "f", "g", "h", "i", "j", "k", "l", "m", "n",
          "o", "p", "q", "r", "s", "t", "u", "v", "w", "x", "y", "z", "_"}

\* PostgreSQL quote_ident: quoted unless the name is a plain lower-case word
quote_ident(s) ==
    IF s # <<>> /\ \A i \in 1..Len(s) : s[i] \in Lower THEN s
    ELSE <<DQ>> \o replaceAll(s, DQ, <<DQ, DQ>>) \o <<DQ>>

\* PostgreSQL quote_literal
quote_literal(s) == <<SQ>> \o replaceAll(s, SQ, <<SQ, SQ>>) \o <<SQ>>

\* pg_enum joined with pg_type for the public schema
PgEnum ==
    <<[typname |-> <<"l", "v">>, enumlabel |-> <<"h", "i">>, enumsortorder |-> 3],
      [typname |-> <<"l", "v">>, enumlabel |-> <<"l", "o">>, enumsortorder |-> 1],
      [typname |-> <<"l", "v">>, enumlabel |-> <<"m", SQ>>, enumsortorder |-> 2]>>

\* string_agg without ORDER BY: the labels as the catalog holds them
SortBySortOrder_AsStored(rows) == rows

\* string_agg(... ORDER BY pg_enum.enumsortorder)
RECURSIVE SortBySortOrder(_)
SortBySortOrder(rows) ==
    IF rows = <<>> THEN <<>>
    ELSE LET m == CHOOSE i \in 1..Len(rows) :
                    \A j \in 1..Len(rows) :
                        j = i \/ rows[i].enumsortorder < rows[j].enumsortorder
         IN <<rows[m]>> \o SortBySortOrder(SubSeq(rows, 1, m - 1)
                                            \o SubSeq(rows, m + 1, Len(rows)))

\* enumQuery: one row per enum type, labels aggregated by enumsortorder;
\* stored is the rows of pg_enum in the order the catalog holds them
EnumRows(stored) ==
    LET names == {stored[i].typname : i \in 1..Len(stored)}
        first(n) == CHOOSE i \in 1..Len(stored) :
                        /\ stored[i].typname = n
                        /\ \A j \in 1..(i - 1) : stored[j].typname # n
        RECURSIVE groups(_)
        groups(left) ==
            IF left = {} THEN <<>>
            ELSE LET n == CHOOSE x \in left : \A y \in left : first(x) <= first(y)
                 IN <<n>> \o groups(left \ {n})
        row(n) ==
            LET labels == SortBySortOrder(SelectSeq(stored, LAMBDA r : r.typname = n))
            IN [type_name |-> quote_ident(n),
                create_enum |->
                    <<"CREATE TYPE ">> \o quote_ident(n) \o <<" AS ENUM (">>
                    \o Join([i \in 1..Len(labels) |-> quote_literal(labels[i].enumlabel)],
                            <<", ">>)
                    \o <<");">>]
        gs == groups(names)
    IN [i \in 1..Len(gs) |-> row(gs[i])]

\* createTableQuery: the rows for one table (none when the catalog has no
\* such table)
CreateTableRows(schema, tableName) ==
    IF \E e \in Range(db) : e.name = tableName /\ e.schema = schema
    THEN LET cols == TableColumns(tableName)
             col(c) ==
                quote_ident(c.column_name) \o <<" ">>
                \o (IF c.data_type = TypeArray THEN <<"text[]">> ELSE c.data_type)
                \o (IF c.is_nullable THEN <<>> ELSE <<" NOT NULL">>)
         IN <<[create_statement |->
                 <<"CREATE TABLE IF NOT EXISTS ">> \o quote_ident(schema) \o <<".">>
                 \o quote_ident(tableName) \o <<" (">>
                 \o Join([i \in 1..Len(cols) |-> col(cols[i])], <<", ">>)
                 \o <<");">>]>>
    ELSE <<>>

\* indexQuery: the rows of pg_indexes for the public schema
IndexRows ==
    LET rows == SortByName(db)
    IN [i \in 1..Len(rows) |->
          [indexdef |-> <<"CREATE UNIQUE INDEX ON ">> \o quote_ident(rows[i].schema)
                        \o <<".">> \o quote_ident(rows[i].name)
                        \o <<" USING btree (">> \o quote_ident(TableColumns(rows[i].name)[1].column_name)
                        \o <<")">>]]

\* extractSchema: the text appended after enumQuery
EnumSection(rows) ==
    IF Len(rows) > 0
    THEN <<"-- Enum Types", NL, NL>>
         \o Concat([i \in 1..Len(rows) |->
                <<"DROP TYPE IF EXISTS ">> \o rows[i].type_name \o <<" CASCADE;", NL>>
                \o rows[i].create_enum \o <<NL, NL>>])
    ELSE <<>>

\* extractSchema: the text appended after the createTableQuery of one table
CreateTableSection(table, rows) ==
    IF Len(rows) > 0
    THEN <<"-- Table: ">> \o table.schema \o <<".">> \o table.name \o <<NL>>
         \o rows[1].create_statement \o <<NL, NL>>
    ELSE <<>>

\* extractSchema: the text appended after indexQuery
IndexSection(rows) ==
    IF Len(rows) > 0
    THEN <<"-- Indexes", NL, NL>>
         \o Concat([i \in 1..Len(rows) |-> rows[i].indexdef \o <<";", NL>>])
         \o <<NL>>
    ELSE <<>>

----------------------------------------------------------------------------
(* The run: main of the command-line tool *)

\* sequences of distinct elements of S, of length 0..n
RECURSIVE DistinctSeqs(_, _)
DistinctSeqs(S, n) ==
    IF n = 0 THEN {<<>>}
    ELSE LET shorter == DistinctSeqs(S, n - 1)
         IN shorter \cup
            {Append(y[1], y[2]) :
                y \in {z \in shorter \X S : Len(z[1]) = n - 1 /\ z[2] \notin Range(z[1])}}

RunTables == {TUsers, TTags, TNotes}

\* the orders in which the catalog may hold and return the rows of pg_enum
EnumStorageOrders ==
    {o \in DistinctSeqs(Range(PgEnum), Len(PgEnum)) : Len(o) = Len(PgEnum)}

\* the databases of a full run: every table is empty or has MaxRows rows
RunDatabases ==
    UNION {
        {[i \in 1..Len(names) |->
             [name |-> names[i], schema |-> Public, size |-> sizes[i]]] :
            sizes \in [1..Len(names) -> {0, MaxRows}]} :
        names \in DistinctSeqs(RunTables, MaxTables)}

InitCommon ==
    /\ allData = EmptyMap
    /\ xi = 0
    /\ allRows = <<>>
    /\ offset = 0
    /\ hasMore = FALSE
    /\ pageLog = <<>>
    /\ outstanding = 0
    /\ requests = <<>>
    /\ client = "none"
    /\ openConns = 0
    /\ exc = NoError
    /\ ret = <<>>
    /\ sql = <<>>
    /\ schemaSQL = <<>>
    /\ qi = 0
    /\ files = EmptyMap
    /\ exitCode = -1
    /\ consoleLog = <<>>
    /\ result = <<>>

Init ==
    /\ databaseUrl \in BOOLEAN
    /\ db \in RunDatabases
    /\ pc = "main"
    /\ tables = <<>>
    /\ ti = 0
    /\ columnTypes = EmptyMap
    /\ call = <<>>
    /\ InitCommon

cfgVars == <<databaseUrl, db, call, result>>

\* a remote request that has ended: the operation and step that issued it,
\* the table and row offset it was for, and how it ended
Request(op, table, from, outcome) ==
    [op |-> op, table |-> table, from |-> from, outcome |-> outcome]
pageVars == <<allRows, offset, hasMore, pageLog, outstanding>>
genVars == <<sql, schemaSQL, qi, files>>

\* main calls discoverTables, which picks the access path
MainDiscover ==
    /\ pc = "main"
    /\ IF databaseUrl
       THEN /\ client' = "created"
            /\ pc' = "dpg_connect"
       ELSE /\ client' = client
            /\ pc' = "rpc"
    /\ UNCHANGED <<cfgVars, requests, consoleLog, pageVars, genVars, tables, columnTypes, allData, ti, xi,
                   openConns, exc, ret, exitCode>>

\* discoverTablesViaPg: await client.connect()
DiscoverPgConnect ==
    /\ pc = "dpg_connect"
    /\ \E ok \in BOOLEAN :
         /\ requests' = Append(requests,
                Request("discoverTablesViaPg: connect", <<>>, 0,
                        IF ok THEN "ok" ELSE "error"))
         /\ IF ok
            THEN /\ client' = "connected"
                 /\ openConns' = openConns + 1
                 /\ exc' = exc
                 /\ pc' = "dpg_query"
            ELSE /\ exc' = "discoverTablesViaPg: connect"
                 /\ pc' = "dpg_end"
                 /\ UNCHANGED <<client, openConns>>
    /\ UNCHANGED <<cfgVars, consoleLog, pageVars, genVars, tables, columnTypes, allData, ti, xi,
                   ret, exitCode>>

\* discoverTablesViaPg: await client.query(query), then the mapping of the rows
DiscoverPgQuery ==
    /\ pc = "dpg_query"
    /\ \E ok \in BOOLEAN :
         /\ requests' = Append(requests,
                Request("discoverTablesViaPg: query", <<>>, 0,
                        IF ok THEN "ok" ELSE "error"))
         /\ IF ok
            THEN /\ ret' = CatalogTables
                 /\ exc' = exc
            ELSE /\ exc' = "discoverTablesViaPg: query"
                 /\ ret' = ret
    /\ pc' = "dpg_end"
    /\ UNCHANGED <<cfgVars, consoleLog, pageVars, genVars, tables, columnTypes, allData, ti, xi,
                   client, openConns, exitCode>>

\* finally { await client.end() }: what it does to the connection
EndClient_OnSuccessOnly ==
    IF exc = NoError
    THEN /\ client' = "ended"
         /\ openConns' = IF client = "connected" THEN openConns - 1 ELSE openConns
    ELSE UNCHANGED <<client, openConns>>
EndClient_Leak ==
    /\ client' = "ended"
    /\ openConns' = openConns
EndClient ==
    /\ client' = "ended"
    /\ openConns' = IF client = "connected" THEN openConns - 1 ELSE openConns

\* discoverTablesViaPg: finally { await client.end() }, then the return to main
\* or the exception reaching the catch of main
DiscoverPgEnd ==
    /\ pc = "dpg_end"
    /\ EndClient
    /\ IF exc # NoError
       THEN /\ pc' = "main_catch"
            /\ tables' = tables
       ELSE /\ pc' = "main_found"
            /\ tables' = ret
    /\ UNCHANGED <<cfgVars, requests, consoleLog, pageVars, genVars, columnTypes, allData, ti, xi, exc,
                   ret, exitCode>>

\* discoverTablesViaSupabase: one get_all_tables call and what follows it
DiscoverRpc ==
    /\ pc = "rpc"
    /\ \E outcome \in {"raise", "error", "nodata", "data"}, withSchema \in BOOLEAN :
         /\ tables' = IF outcome = "data" THEN RpcTables(withSchema) ELSE <<>>
         /\ consoleLog' = IF outcome = "data" THEN consoleLog
                           ELSE Append(consoleLog, [line |-> "Cannot discover tables automatically",
                                                    table |-> <<>>])
         /\ requests' = Append(requests,
                Request("discoverTablesViaSupabase: get_all_tables", <<>>, 0,
                        IF outcome = "data" THEN "ok" ELSE outcome))
    /\ pc' = "main_found"
    /\ UNCHANGED <<cfgVars, pageVars, genVars, columnTypes, allData, ti, xi, client,
                   openConns, exc, ret, exitCode>>

\* a main without the empty-discovery return
MainFound_NoReturn ==
    /\ pc = "main_found"
    /\ pc' = "ead_types"
    /\ allData' = EmptyMap
    /\ ti' = 1
    /\ UNCHANGED <<cfgVars, requests, consoleLog, pageVars, genVars, tables, columnTypes, xi, client,
                   openConns, exc, ret, exitCode>>

\* main: the empty-discovery return, or the call of extractAllData
MainFound ==
    /\ pc = "main_found"
    /\ IF Len(tables) = 0
       THEN /\ pc' = "done"
            /\ exitCode' = 0
            /\ UNCHANGED <<allData, ti>>
       ELSE /\ pc' = "ead_types"
            /\ allData' = EmptyMap
            /\ ti' = 1
            /\ exitCode' = exitCode
    /\ UNCHANGED <<cfgVars, requests, consoleLog, pageVars, genVars, tables, columnTypes, xi, client,
                   openConns, exc, ret>>

----------------------------------------------------------------------------
(* extractAllData *)

\* the column-type loop: the next call of fetchColumnTypes, or on to the
\* extraction loop
TypesNext ==
    /\ pc = "ead_types"
    /\ IF databaseUrl /\ ti <= Len(tables)
       THEN /\ client' = "created"
            /\ pc' = "fct_connect"
            /\ xi' = xi
       ELSE /\ client' = client
            /\ pc' = "ead_extract"
            /\ xi' = 1
    /\ UNCHANGED <<cfgVars, requests, consoleLog, pageVars, genVars, tables, columnTypes, allData, ti,
                   openConns, exc, ret, exitCode>>

\* fetchColumnTypes: await client.connect()
FetchTypesConnect ==
    /\ pc = "fct_connect"
    /\ \E ok \in BOOLEAN :
         /\ requests' = Append(requests,
                Request("fetchColumnTypes: connect", tables[ti].name, 0,
                        IF ok THEN "ok" ELSE "error"))
         /\ IF ok
            THEN /\ client' = "connected"
                 /\ openConns' = openConns + 1
                 /\ exc' = exc
                 /\ pc' = "fct_query"
            ELSE /\ exc' = "fetchColumnTypes: connect"
                 /\ pc' = "fct_end"
                 /\ UNCHANGED <<client, openConns>>
    /\ UNCHANGED <<cfgVars, consoleLog, pageVars, genVars, tables, columnTypes, allData, ti, xi,
                   ret, exitCode>>

\* fetchColumnTypes: await client.query(query, [schema, tableName]) and the
\* loop that fills typeMap
FetchTypesQuery ==
    /\ pc = "fct_query"
    /\ \E ok \in BOOLEAN :
         /\ requests' = Append(requests,
                Request("fetchColumnTypes: query", tables[ti].name, 0,
                        IF ok THEN "ok" ELSE "error"))
         /\ IF ok
            THEN /\ ret' = ColumnTypeMap(tables[ti].name, tables[ti].schema)
                 /\ exc' = exc
            ELSE /\ exc' = "fetchColumnTypes: query"
                 /\ ret' = ret
    /\ pc' = "fct_end"
    /\ UNCHANGED <<cfgVars, consoleLog, pageVars, genVars, tables, columnTypes, allData, ti, xi,
                   client, openConns, exitCode>>

\* a catch that stores an empty map for the table
TypesAfterError_EmptyEntry == MapSet(columnTypes, tables[ti].name, EmptyMap)

\* extractAllData: catch (error) { console.warn(...) } of the prefetch loop,
\* which leaves this.columnTypes as it was
TypesAfterError == columnTypes

\* fetchColumnTypes: finally { await client.end() }; then extractAllData stores
\* the map, or catches the exception and warns
FetchTypesEnd ==
    /\ pc = "fct_end"
    /\ EndClient
    /\ columnTypes' = IF exc # NoError THEN TypesAfterError
                      ELSE MapSet(columnTypes, tables[ti].name, ret)
    /\ consoleLog' = IF exc # NoError
                      THEN Append(consoleLog, [line |-> "Warning: Could not fetch column types",
                                               table |-> tables[ti].name])
                      ELSE consoleLog
    /\ exc' = NoError
    /\ ti' = ti + 1
    /\ pc' = "ead_types"
    /\ UNCHANGED <<cfgVars, requests, pageVars, genVars, tables, allData, xi, ret, exitCode>>

\* the extraction loop: the next call of extractTableData, or the return
ExtractNext ==
    /\ pc = "ead_extract"
    /\ IF xi <= Len(tables)
       THEN /\ allRows' = <<>>
            /\ offset' = 0
            /\ hasMore' = TRUE
            /\ pc' = "etd_page"
       ELSE /\ UNCHANGED <<allRows, offset, hasMore>>
            /\ pc' = "ead_return"
    /\ UNCHANGED <<cfgVars, requests, consoleLog, genVars, tables, columnTypes, allData, ti, xi, pageLog,
                   outstanding, client, openConns, exc, ret, exitCode>>

\* extractTableData: .range(offset, offset + limit - 1), both ends included
RangeEnd(from) == from + limit - 1

\* extractTableData: offset += limit
NextOffset_Overlap(from) == from + limit - 1
NextOffset(from) == from + limit

\* extractTableData: hasMore after a page that reported no error
MorePages_WhileRows(data) == Len(data) > 0
MorePages(data) == Len(data) > 0 /\ Len(data) = limit

\* extractAllData: catch (error) { allData[table.name] = [] }
DataAfterError_NoEntry(name) == allData
DataAfterError_KeepRows(name) == MapSet(allData, name, allRows)
DataAfterError(name) == MapSet(allData, name, <<>>)

\* extractTableData: if (error) throw: where control goes, the catch of the
\* extraction loop of extractAllData
OnPageError_Retry == "etd_page"
OnPageError == "ead_catch"

\* extractTableData: the while test and the page request being sent
PageRequest ==
    /\ pc = "etd_page"
    /\ hasMore
    /\ pageLog' = Append(pageLog, [table |-> tables[xi].name, from |-> offset,
                                   to |-> RangeEnd(offset)])
    /\ outstanding' = outstanding + 1
    /\ pc' = "etd_wait"
    /\ UNCHANGED <<cfgVars, requests, consoleLog, genVars, tables, columnTypes, allData, ti, xi,
                   allRows, offset, hasMore, client, openConns, exc, ret, exitCode>>

\* extractTableData: the answer to the page request and the rest of the turn
\* of the while loop.  An error of the request is raised to extractAllData;
\* the end of the loop returns allRows, which extractAllData records.
PageResponse ==
    /\ pc = "etd_wait"
    /\ outstanding' = outstanding - 1
    /\ \E error \in BOOLEAN :
         /\ requests' = Append(requests,
                Request("extractTableData: page", tables[xi].name, offset,
                        IF error THEN "error" ELSE "ok"))
         /\ IF error
            THEN /\ exc' = "extractTableData: page"
                 /\ pc' = OnPageError
                 /\ UNCHANGED <<allRows, offset, hasMore, allData, xi>>
            ELSE LET data == Page(tables[xi].name, offset, RangeEnd(offset))
                     more == MorePages(data)
                     rows == IF Len(data) > 0 THEN allRows \o data ELSE allRows
                 IN /\ allRows' = rows
                    /\ offset' = IF Len(data) > 0 THEN NextOffset(offset) ELSE offset
                    /\ hasMore' = more
                    /\ exc' = exc
                    /\ IF more
                       THEN /\ pc' = "etd_page"
                            /\ UNCHANGED <<allData, xi>>
                       ELSE /\ allData' = MapSet(allData, tables[xi].name, rows)
                            /\ xi' = xi + 1
                            /\ pc' = "ead_extract"
    /\ UNCHANGED <<cfgVars, consoleLog, genVars, tables, columnTypes, ti, pageLog, client,
                   openConns, ret, exitCode>>

\* extractAllData: catch (error) of the extraction loop: the error is
\* reported, the table gets the empty dataset and the loop goes on
ExtractCatch ==
    /\ pc = "ead_catch"
    /\ allData' = DataAfterError(tables[xi].name)
    /\ consoleLog' = Append(consoleLog, [line |-> "Error extracting",
                                         table |-> tables[xi].name])
    /\ exc' = NoError
    /\ xi' = xi + 1
    /\ pc' = "ead_extract"
    /\ UNCHANGED <<cfgVars, requests, pageVars, genVars, tables, columnTypes, ti, client,
                   openConns, ret, exitCode>>

\* extractAllData returns allData to main, which calls
\* generateReconstructionSQL
ExtractAllDataReturn ==
    /\ pc = "ead_return"
    /\ pc' = "gen_start"
    /\ UNCHANGED <<cfgVars, requests, consoleLog, pageVars, genVars, tables, columnTypes, allData, ti, xi,
                   client, openConns, exc, ret, exitCode>>

----------------------------------------------------------------------------
(* generateReconstructionSQL, extractSchema and the end of main *)

SqlFile == "database_reconstruction.sql"
InsertsFile == "database_inserts.sql"

\* generateReconstructionSQL: the header, then the call of extractSchema or
\* the placeholder
GenerateStart ==
    /\ pc = "gen_start"
    /\ IF databaseUrl
       THEN /\ sql' = Header
            /\ schemaSQL' = <<"-- Database Schema", NL, NL>>
            /\ client' = "created"
            /\ pc' = "xs_connect"
       ELSE /\ sql' = Header \o Placeholder
            /\ UNCHANGED <<schemaSQL, client>>
            /\ pc' = "gen_inserts"
    /\ UNCHANGED <<cfgVars, requests, consoleLog, pageVars, tables, columnTypes, allData, ti, xi, qi, files,
                   openConns, exc, ret, exitCode>>

\* extractSchema: await client.connect()
ExtractSchemaConnect ==
    /\ pc = "xs_connect"
    /\ \E ok \in BOOLEAN :
         /\ requests' = Append(requests,
                Request("extractSchema: connect", <<>>, 0,
                        IF ok THEN "ok" ELSE "error"))
         /\ IF ok
            THEN /\ client' = "connected"
                 /\ openConns' = openConns + 1
                 /\ exc' = exc
                 /\ pc' = "xs_enum"
            ELSE /\ exc' = "extractSchema: connect"
                 /\ pc' = "xs_end"
                 /\ UNCHANGED <<client, openConns>>
    /\ UNCHANGED <<cfgVars, consoleLog, pageVars, genVars, tables, columnTypes, allData, ti, xi,
                   ret, exitCode>>

\* extractSchema: await client.query(enumQuery) and the enum section
ExtractSchemaEnumQuery ==
    /\ pc = "xs_enum"
    /\ \E ok \in BOOLEAN, stored \in EnumStorageOrders :
         /\ requests' = Append(requests,
                Request("extractSchema: enumQuery", <<>>, 0,
                        IF ok THEN "ok" ELSE "error"))
         /\ IF ok
            THEN /\ schemaSQL' = schemaSQL \o EnumSection(EnumRows(stored))
                 /\ qi' = 1
                 /\ exc' = exc
                 /\ pc' = IF Len(tables) >= 1 THEN "xs_table" ELSE "xs_index"
            ELSE /\ exc' = "extractSchema: enumQuery"
                 /\ pc' = "xs_end"
                 /\ UNCHANGED <<schemaSQL, qi>>
    /\ UNCHANGED <<cfgVars, consoleLog, pageVars, sql, files, tables, columnTypes, allData, ti, xi,
                   client, openConns, ret, exitCode>>

\* extractSchema: one turn of the table loop
ExtractSchemaTableQuery ==
    /\ pc = "xs_table"
    /\ qi <= Len(tables)
    /\ \E ok \in BOOLEAN :
         /\ requests' = Append(requests,
                Request("extractSchema: createTableQuery", tables[qi].name, 0,
                        IF ok THEN "ok" ELSE "error"))
         /\ IF ok
            THEN /\ schemaSQL' = schemaSQL \o
                       CreateTableSection(tables[qi],
                           CreateTableRows(tables[qi].schema, tables[qi].name))
                 /\ qi' = qi + 1
                 /\ exc' = exc
                 /\ pc' = IF qi + 1 <= Len(tables) THEN "xs_table" ELSE "xs_index"
            ELSE /\ exc' = "extractSchema: createTableQuery"
                 /\ pc' = "xs_end"
                 /\ UNCHANGED <<schemaSQL, qi>>
    /\ UNCHANGED <<cfgVars, consoleLog, pageVars, sql, files, tables, columnTypes, allData, ti, xi,
                   client, openConns, ret, exitCode>>

\* extractSchema: await client.query(indexQuery) and the index section
ExtractSchemaIndexQuery ==
    /\ pc = "xs_index"
    /\ \E ok \in BOOLEAN :
         /\ requests' = Append(requests,
                Request("extractSchema: indexQuery", <<>>, 0,
                        IF ok THEN "ok" ELSE "error"))
         /\ IF ok
            THEN /\ schemaSQL' = schemaSQL \o IndexSection(IndexRows)
                 /\ exc' = exc
            ELSE /\ exc' = "extractSchema: indexQuery"
                 /\ schemaSQL' = schemaSQL
    /\ pc' = "xs_end"
    /\ UNCHANGED <<cfgVars, consoleLog, pageVars, sql, qi, files, tables, columnTypes, allData, ti,
                   xi, client, openConns, ret, exitCode>>

\* extractSchema: finally { await client.end() }; then the return to
\* generateReconstructionSQL, which appends the schema text, or the exception
\* passing through generateReconstructionSQL to the catch of main
ExtractSchemaEnd ==
    /\ pc = "xs_end"
    /\ EndClient
    /\ IF exc # NoError
       THEN /\ pc' = "main_catch"
            /\ sql' = sql
       ELSE /\ pc' = "gen_inserts"
            /\ sql' = sql \o schemaSQL
    /\ UNCHANGED <<cfgVars, requests, consoleLog, pageVars, schemaSQL, qi, files, tables, columnTypes,
                   allData, ti, xi, exc, ret, exitCode>>

\* generateReconstructionSQL: the data sections and the footer; main then
\* writes the document
\* a call that passes drop-mode on where generateReconstructionSQL passes none
includeDropStatements_DefaultOn == TRUE

\* includeDropStatements: boolean = false, the value of the parameter in the
\* call of generateReconstructionSQL, which passes two arguments
includeDropStatements_Default == FALSE

GenerateInserts ==
    /\ pc = "gen_inserts"
    /\ LET insertSQL == generateInsertStatements(tables, allData,
                                                includeDropStatements_Default)
       IN IF insertSQL.threw
          THEN /\ exc' = "formatValue"
               /\ pc' = "main_catch"
               /\ UNCHANGED <<sql, files>>
          ELSE /\ sql' = sql \o insertSQL.text \o Footer
               /\ files' = MapSet(files, SqlFile, sql')
               /\ exc' = exc
               /\ pc' = "main_inserts"
    /\ UNCHANGED <<cfgVars, requests, consoleLog, pageVars, schemaSQL, qi, tables, columnTypes, allData, ti,
                   xi, client, openConns, ret, exitCode>>

\* main: the inserts-only document with DROP TABLE statements
MainInserts ==
    /\ pc = "main_inserts"
    /\ LET insertStatements == generateInsertStatements(tables, allData, TRUE)
       IN IF insertStatements.threw
          THEN /\ exc' = "formatValue"
               /\ pc' = "main_catch"
               /\ UNCHANGED <<files, exitCode>>
          ELSE /\ files' = MapSet(files, InsertsFile, insertStatements.text)
               /\ exc' = exc
               /\ pc' = "done"
               /\ exitCode' = 0
    /\ UNCHANGED <<cfgVars, requests, consoleLog, pageVars, sql, schemaSQL, qi, tables, columnTypes, allData,
                   ti, xi, client, openConns, ret>>

\* main: catch (error) { process.exit(1) }
MainCatch ==
    /\ pc = "main_catch"
    /\ exc' = NoError
    /\ exitCode' = 1
    /\ pc' = "exited"
    /\ UNCHANGED <<cfgVars, requests, consoleLog, pageVars, genVars, tables, columnTypes, allData, ti, xi,
                   client, openConns, ret>>

Next ==
    \/ MainDiscover
    \/ DiscoverPgConnect
    \/ DiscoverPgQuery
    \/ DiscoverPgEnd
    \/ DiscoverRpc
    \/ MainFound
    \/ TypesNext
    \/ FetchTypesConnect
    \/ FetchTypesQuery
    \/ FetchTypesEnd
    \/ ExtractNext
    \/ PageRequest
    \/ PageResponse
    \/ ExtractCatch
    \/ ExtractAllDataReturn
    \/ GenerateStart
    \/ ExtractSchemaConnect
    \/ ExtractSchemaEnumQuery
    \/ ExtractSchemaTableQuery
    \/ ExtractSchemaIndexQuery
    \/ ExtractSchemaEnd
    \/ GenerateInserts
    \/ MainInserts
    \/ MainCatch

Spec == Init /\ [][Next]_vars

----------------------------------------------------------------------------
(* extractAllData on large tables: the run starts at the call of            *)
(* extractAllData with every table of the database discovered, without a     *)
(* privileged connection string.                                             *)

\* the tables of a pagination run, in discovery order
PageTables == <<TBig, TLarge>>

\* k full pages and r more rows
PageSizes == {k * limit + r : k \in 0..MaxPages, r \in {0, 1, limit - 1}}

PageDatabases ==
    UNION {
        {[i \in 1..n |->
             [name |-> PageTables[i], schema |-> Public, size |-> sizes[i]]] :
            sizes \in [1..n -> PageSizes]} :
        n \in 0..Min(MaxTables, Len(PageTables))}

InitPage ==
    /\ databaseUrl = FALSE
    /\ db \in PageDatabases
    /\ pc = "ead_types"
    /\ tables = RpcTables(TRUE)
    /\ ti = 1
    /\ columnTypes = EmptyMap
    /\ call = <<>>
    /\ InitCommon

NextPage ==
    \/ TypesNext
    \/ ExtractNext
    \/ PageRequest
    \/ PageResponse
    \/ ExtractCatch
    \/ ExtractAllDataReturn

SpecPage == InitPage /\ [][NextPage]_vars

----------------------------------------------------------------------------
(* Direct calls: formatValue on one cell, and the public                     *)
(* generateInsertStatements on a table list and a dataset mapping the caller *)
(* supplies.                                                                 *)

\* the column types as fetchColumnTypes stores them for the catalog's tables
CatalogTypes ==
    [n \in RunTables |->
        LET cols == TableColumns(n)
        IN [c \in {cols[i].column_name : i \in 1..Len(cols)} |->
               (CHOOSE x \in Range(cols) : x.column_name = c).data_type]]

\* the same with text[] as the type of the array column
ElementTypes ==
    [n \in RunTables |->
        [c \in DOMAIN CatalogTypes[n] |->
            IF CatalogTypes[n][c] = TypeArray THEN TypeTextArray
            ELSE CatalogTypes[n][c]]]

CallColumnTypes == {EmptyMap, CatalogTypes, ElementTypes}

\* the characters of the strings formatValue is called on: a plain one, the
\* single quote and the backslash
CallChars == {"a", SQ, "\\"}

\* the sequences over S of length 0..n
Seqs(S, n) == UNION {[1..k -> S] : k \in 0..n}

CallValues ==
    {Str(t) : t \in Seqs(CallChars, MaxLen)} \cup
    {Null, Undefined,
     Str(<<>>), Str(<<"a">>), Str(<<SQ>>), Str(<<"O", SQ, "B">>), Str(<<DQ, NL>>),
     Bool(TRUE), Bool(FALSE),
     Num(0), Num(42), Num(-7), NaN, PosInfinity, NegInfinity,
     DateOf(Now), InvalidDate,
     Arr(<<>>), Arr(<<Str(<<"a">>), Str(<<"b">>)>>), Arr(<<Str(<<"b", SQ>>)>>),
     Arr(<<Num(1), Null>>), Arr(<<Undefined, Obj(<<>>)>>), Arr(<<InvalidDate>>),
     Arr(<<Cyclic>>), Arr(<<BigInt(5)>>), Arr(<<Arr(<<Num(1), Num(2)>>)>>),
     Obj(<<>>), Obj(<<Entry(<<"k">>, Str(<<SQ>>))>>),
     Obj(<<Entry(<<"k">>, Undefined), Entry(<<"j">>, Num(1))>>),
     Obj(<<Entry(<<"k">>, BigInt(5))>>), Cyclic,
     BigInt(5), Symbol, Function}

\* the characters of the identifiers quoteIdentifier is called on
IdentChars == {"a", DQ, SQ}

InitCall ==
    /\ columnTypes \in CallColumnTypes
    /\ databaseUrl = (columnTypes # EmptyMap)
    /\ db = <<>>
    /\ tables = <<>>
    /\ ti = 0
    /\ \/ /\ pc = "call_formatValue"
          /\ call \in [value : CallValues,
                       tableName : {NoArg, TTags},
                       columnName : {NoArg, CLabels, CId}]
       \/ /\ pc = "call_quoteIdentifier"
          /\ call \in [identifier : Seqs(IdentChars, MaxLen)]
       \/ /\ pc = "call_generateInsertStatements"
          /\ \E names \in DistinctSeqs(RunTables, MaxTables) :
             \E f \in [RunTables -> 0..(MaxRows + 1)], drop \in BOOLEAN :
                call = [tables |-> [i \in 1..Len(names) |->
                                      [name |-> names[i], schema |-> Public]],
                        data |-> [n \in {m \in RunTables : f[m] > 0} |->
                                    [j \in 1..(f[n] - 1) |-> RowAt(n, j)]],
                        includeDropStatements |-> drop]
    /\ InitCommon

FormatValueCall ==
    /\ pc = "call_formatValue"
    /\ result' = formatValue(call.value, call.tableName, call.columnName)
    /\ pc' = "returned"
    /\ UNCHANGED <<databaseUrl, db, call, requests, consoleLog, pageVars, genVars, tables,
                   columnTypes, allData, ti, xi, client, openConns, exc, ret, exitCode>>

QuoteIdentifierCall ==
    /\ pc = "call_quoteIdentifier"
    /\ result' = Return(quoteIdentifier(call.identifier))
    /\ pc' = "returned"
    /\ UNCHANGED <<databaseUrl, db, call, requests, consoleLog, pageVars, genVars, tables,
                   columnTypes, allData, ti, xi, client, openConns, exc, ret, exitCode>>

GenerateInsertStatementsCall ==
    /\ pc = "call_generateInsertStatements"
    /\ result' = generateInsertStatements(call.tables, call.data,
                                          call.includeDropStatements)
    /\ pc' = "returned"
    /\ UNCHANGED <<databaseUrl, db, call, requests, consoleLog, pageVars, genVars, tables,
                   columnTypes, allData, ti, xi, client, openConns, exc, ret, exitCode>>

NextCall ==
    \/ FormatValueCall
    \/ QuoteIdentifierCall
    \/ GenerateInsertStatementsCall

SpecCall == InitCall /\ [][NextCall]_vars

----------------------------------------------------------------------------
(* Properties of the paginated extraction *)

\* the page requests sent for a table, in order
Requests(name) == SelectSeq(pageLog, LAMBDA q : q.table = name)

\* extractAllData reported an extraction error for the table
Failed(name) ==
    \E i \in 1..Len(consoleLog) :
        consoleLog[i].line = "Error extracting" /\ consoleLog[i].table = name

\* the call of extractTableData for tables[j] has ended
Extracted(j) == j \in 1..Len(tables) /\ j < xi

SizeOf(name) == (CHOOSE e \in Range(db) : e.name = name).size

\* C1 as stated: a table of k*1000 + r rows whose requests all succeed gets
\* k+1 page requests when r > 0 and exactly k page requests when r = 0.
C1_RequestsAsStated ==
    \A j \in 1..Len(tables) :
        (Extracted(j) /\ ~Failed(tables[j].name)) =>
            LET n == SizeOf(tables[j].name)
                k == n \div limit
                r == n % limit
            IN Len(Requests(tables[j].name)) = IF r > 0 THEN k + 1 ELSE k

\* C1 amended: a table of k*1000 + r rows whose requests all succeed gets
\* exactly k+1 page requests, for r > 0 and for r = 0 alike: after k full
\* pages one more request is sent, which returns the r remaining rows.
C1_Requests ==
    \A j \in 1..Len(tables) :
        (Extracted(j) /\ ~Failed(tables[j].name)) =>
            LET n == SizeOf(tables[j].name)
                k == n \div limit
            IN Len(Requests(tables[j].name)) = k + 1

\* C1 witness: a table of k >= 1 full pages and no further row was extracted
\* without error
C1_Witness ==
    \E j \in 1..Len(tables) :
        /\ Extracted(j)
        /\ ~Failed(tables[j].name)
        /\ SizeOf(tables[j].name) >= limit
        /\ SizeOf(tables[j].name) % limit = 0
        /\ Len(Requests(tables[j].name)) = (SizeOf(tables[j].name) \div limit) + 1

\* C2: the requests of a table are the consecutive windows [0,1000),
\* [1000,2000), ...; when they all succeed the dataset recorded for the table
\* has exactly its n rows, is the concatenation of the pages in the order
\* fetched, and is the table's content in storage order (no position skipped,
\* none twice).
C2_ConsecutiveWindows ==
    \A j \in 1..Len(tables) :
        LET name == tables[j].name
            rq == Requests(name)
        IN /\ \A i \in 1..Len(rq) :
                rq[i].from = (i - 1) * limit /\ rq[i].to = i * limit - 1
           /\ (Extracted(j) /\ ~Failed(name)) =>
                /\ Len(allData[name]) = SizeOf(name)
                /\ allData[name] = Concat([i \in 1..Len(rq) |->
                                             Page(name, rq[i].from, rq[i].to)])
                /\ allData[name] = TableRows(name)

\* C2 witness: a table of more than two pages was extracted without error
C2_Witness ==
    \E j \in 1..Len(tables) :
        /\ Extracted(j)
        /\ ~Failed(tables[j].name)
        /\ SizeOf(tables[j].name) > 2 * limit
        /\ Len(allData[tables[j].name]) = SizeOf(tables[j].name)

----------------------------------------------------------------------------
(* Properties of the run *)

\* C3: per-table fault isolation.  Every table whose extraction has ended has
\* an entry in allData: the empty sequence when its extraction failed, its
\* full row sequence otherwise, whatever happened to the tables before it;
\* when extractAllData returns, the entries are exactly the discovered tables.
C3_FaultIsolation ==
    /\ \A j \in 1..Len(tables) :
          Extracted(j) =>
             /\ tables[j].name \in DOMAIN allData
             /\ allData[tables[j].name] =
                   IF Failed(tables[j].name) THEN <<>> ELSE TableRows(tables[j].name)
    /\ pc = "ead_return" =>
          DOMAIN allData = {tables[j].name : j \in 1..Len(tables)}

\* C3 witness: extractAllData returns with a failed table followed by a table
\* that has all its rows
C3_Witness ==
    /\ pc = "ead_return"
    /\ \E j, k \in 1..Len(tables) :
          /\ j < k
          /\ Failed(tables[j].name)
          /\ ~Failed(tables[k].name)
          /\ Len(allData[tables[k].name]) > 0
          /\ allData[tables[j].name] = <<>>

\* C4 as stated: discoverTables never throws, with or without a privileged
\* connection string: no error of discoverTablesViaPg reaches its caller.
C4_DiscoverNeverThrows ==
    pc = "main_catch" =>
        exc \notin {"discoverTablesViaPg: connect", "discoverTablesViaPg: query"}

\* the flow is inside discoverTablesViaPg, fetchColumnTypes or extractSchema
InsidePgOperation ==
    pc \in {"dpg_connect", "dpg_query", "dpg_end",
            "fct_connect", "fct_query", "fct_end",
            "xs_connect", "xs_enum", "xs_table", "xs_index", "xs_end"}

\* C5: outside discoverTablesViaPg, fetchColumnTypes and extractSchema, that
\* is once any of them has returned or raised, no privileged connection is
\* open.
C5_ConnectionsReleased ==
    ~InsidePgOperation => (openConns = 0 /\ client # "connected")

\* C5 witness: extractSchema raised after its connection was opened, and the
\* connection is closed
C5_Witness ==
    /\ pc = "main_catch"
    /\ exc = "extractSchema: createTableQuery"
    /\ client = "ended"
    /\ openConns = 0

\* C6 as stated: formatValue returns a non-empty string and never raises, for
\* every value kind and every type hint.
C6_FormatValueTotal ==
    (pc = "returned" /\ "value" \in DOMAIN call) =>
        (~result.threw /\ Len(result.text) > 0)

\* the number of places where pat occurs in text
CountOcc(text, pat) ==
    Cardinality({p \in 1..(Len(text) - Len(pat) + 1) :
                    SubSeq(text, p, p + Len(pat) - 1) = pat})

Contains(text, pat) ==
    \E p \in 1..(Len(text) - Len(pat) + 1) : SubSeq(text, p, p + Len(pat) - 1) = pat

\* ARRAY['e1','e2',...]:: for the elements of an array value
ArrayConstructor(value) ==
    <<"ARRAY[">>
    \o Join([i \in 1..Len(value.items) |->
                <<SQ>> \o replaceAll(String(value.items[i]), SQ, <<SQ, SQ>>) \o <<SQ>>],
            <<",">>)
    \o <<"]::">>

\* C7 as stated: in the document of a run with privileged access, every array
\* value of a column whose stored catalog type is ARRAY is written as an
\* ARRAY[...] constructor with quote-escaped elements and a type annotation,
\* not as a JSON literal.
C7_ArrayColumnsAsConstructor ==
    SqlFile \in DOMAIN files =>
        \A j \in 1..Len(tables) :
            LET name == tables[j].name
                rows == allData[name]
            IN \A r \in 1..Len(rows) : \A i \in 1..Len(rows[r].items) :
                  LET col == keys(rows[r])[i]
                      value == get(rows[r], i)
                  IN (columnTypeOf(name, col) = TypeArray /\ value.kind = "array") =>
                        /\ Contains(files[SqlFile], ArrayConstructor(value))
                        /\ ~Contains(files[SqlFile],
                                     replaceAll(JSONstringify(value).text, SQ, <<SQ, SQ>>)
                                     \o <<SQ, "::jsonb">>)

\* C8 as stated: in every document written, each place where the name of a
\* discovered table stands is inside the quoted identifier quoteIdentifier
\* makes of it, in statements and comment lines alike.
C8_NamesOnlyQuoted ==
    \A f \in DOMAIN files : \A j \in 1..Len(tables) :
        LET name == tables[j].name
            doc == files[f]
        IN \A p \in 1..(Len(doc) - Len(name) + 1) :
              SubSeq(doc, p, p + Len(name) - 1) = name =>
                 /\ p > 1
                 /\ SubSeq(doc, p - 1, p + Len(name)) = quoteIdentifier(name)

\* C9 as stated: generateReconstructionSQL always returns a document, also
\* when introspection was attempted and failed, and the section after the
\* header is the schema DDL or the placeholder.
C9_SchemaOrPlaceholder ==
    /\ pc = "main_catch" =>
          exc \notin {"extractSchema: connect", "extractSchema: enumQuery",
                      "extractSchema: createTableQuery", "extractSchema: indexQuery"}
    /\ SqlFile \in DOMAIN files =>
          LET doc == files[SqlFile]
              rest == SubSeq(doc, Len(Header) + 1, Len(doc))
          IN /\ SubSeq(doc, 1, Len(Header)) = Header
             /\ \/ SubSeq(rest, 1, Len(Placeholder)) = Placeholder
                \/ SubSeq(rest, 1, 3) = <<"-- Database Schema", NL, NL>>

----------------------------------------------------------------------------
(* Properties of generateInsertStatements called directly *)

GenerateReturned == pc = "returned" /\ "tables" \in DOMAIN call

InsertOpening(table) ==
    <<"INSERT INTO ">> \o quoteIdentifier(table.schema) \o <<".">>
    \o quoteIdentifier(table.name) \o <<" (">>

DropStatement(table) ==
    <<"DROP TABLE IF EXISTS ">> \o quoteIdentifier(table.schema) \o <<".">>
    \o quoteIdentifier(table.name) \o <<" CASCADE;">>

NoDataLine(table) == <<"-- No data for table: ">> \o table.name \o <<NL>>

NoDataset(table) ==
    table.name \notin DOMAIN call.data \/ call.data[table.name] = <<>>

\* C10: for every listed table whose dataset is empty or absent, the text
\* generateInsertStatements returns has no INSERT statement for the table,
\* exactly one "no data" comment line for it and no DROP TABLE for it, with
\* drop-mode on or off.
C10_EmptyTables ==
    GenerateReturned =>
        /\ ~result.threw
        /\ \A i \in 1..Len(call.tables) :
              NoDataset(call.tables[i]) =>
                 /\ CountOcc(result.text, InsertOpening(call.tables[i])) = 0
                 /\ CountOcc(result.text, NoDataLine(call.tables[i])) = 1
                 /\ CountOcc(result.text, DropStatement(call.tables[i])) = 0

\* C10 witness: a drop-mode call with a table absent from the mapping, a
\* table with an empty dataset and a table with rows
C10_Witness ==
    /\ GenerateReturned
    /\ call.includeDropStatements
    /\ \E i, j \in 1..Len(call.tables) :
          /\ call.tables[i].name \notin DOMAIN call.data
          /\ call.tables[j].name \in DOMAIN call.data
          /\ Len(call.data[call.tables[j].name]) > 0
          /\ Contains(result.text, DropStatement(call.tables[j]))
          /\ CountOcc(result.text, NoDataLine(call.tables[i])) = 1

----------------------------------------------------------------------------
(* Properties of the full document *)

\* the places where the non-empty pat occurs in text
Positions(text, pat) ==
    {p \in 1..(Len(text) - Len(pat) + 1) :
        text[p] = pat[1] /\ SubSeq(text, p, p + Len(pat) - 1) = pat}

\* the n-th of them
NthPos(text, pat, n) ==
    CHOOSE p \in Positions(text, pat) :
        Cardinality({q \in Positions(text, pat) : q < p}) = n - 1

\* the first place where pat occurs in text, 0 when it does not
FirstPos(text, pat) ==
    LET places == Positions(text, pat)
    IN IF places = {} THEN 0
       ELSE CHOOSE p \in places : \A q \in places : p <= q

\* the comment line that opens the data section of a table
SectionLine(table) ==
    IF allData[table.name] = <<>>
    THEN <<"-- No data for table: ">> \o table.name \o <<NL>>
    ELSE <<"-- Data for table: ">> \o table.name \o <<NL>>

\* C11: the full document is header, then schema section (the DDL text of
\* extractSchema or the placeholder), then one data section per table, then
\* footer; the data sections stand in discovery order, and within a table
\* the INSERT statements stand in the order of the fetched rows.
C11_DocumentOrder ==
    SqlFile \in DOMAIN files =>
        LET doc == files[SqlFile]
            schema == IF databaseUrl THEN schemaSQL ELSE Placeholder
            section(i) ==
                LET rows == allData[tables[i].name]
                IN IF rows = <<>>
                   THEN SectionLine(tables[i]) \o <<NL>>
                   ELSE SectionLine(tables[i])
                        \o <<"-- Rows: ">> \o IntToText(Len(rows)) \o <<NL, NL>>
                        \o Concat([r \in 1..Len(rows) |->
                                     InsertStatement(tables[i], rows[r]).text])
                        \o <<NL>>
        IN /\ doc = Header \o schema
                    \o Concat([i \in 1..Len(tables) |-> section(i)]) \o Footer
           /\ databaseUrl => SubSeq(schema, 1, 3) = <<"-- Database Schema", NL, NL>>
           /\ \A i, j \in 1..Len(tables) :
                 i < j =>
                    /\ FirstPos(doc, SectionLine(tables[i])) > Len(Header)
                    /\ FirstPos(doc, SectionLine(tables[i]))
                          < FirstPos(doc, SectionLine(tables[j]))
                    /\ FirstPos(doc, SectionLine(tables[j])) < FirstPos(doc, Footer)
           /\ \A i \in 1..Len(tables) :
                 LET rows == allData[tables[i].name]
                 IN /\ ~Failed(tables[i].name) => rows = TableRows(tables[i].name)
                    /\ Cardinality(Positions(doc, InsertOpening(tables[i]))) = Len(rows)
                    /\ \A r \in 1..Len(rows) :
                          LET stmt == InsertStatement(tables[i], rows[r]).text
                              p == NthPos(doc, InsertOpening(tables[i]), r)
                          IN SubSeq(doc, p, p + Len(stmt) - 1) = stmt

\* C11 witness: a document with the DDL section and two tables of two rows
C11_Witness ==
    /\ SqlFile \in DOMAIN files
    /\ databaseUrl
    /\ Len(tables) = 2
    /\ \A i \in 1..2 : Len(allData[tables[i].name]) = 2
    /\ Contains(files[SqlFile], <<"-- Indexes", NL, NL>>)

----------------------------------------------------------------------------
(* Properties of formatValue and quoteIdentifier called directly *)

FormatValueReturned == pc = "returned" /\ "value" \in DOMAIN call

\* the reading of the inside of a quoted literal or identifier: a doubled
\* quote q reads as one q, a single q does not belong there
RECURSIVE Undouble(_, _)
Undouble(s, q) ==
    IF s = <<>> THEN [ok |-> TRUE, value |-> <<>>]
    ELSE IF s[1] # q THEN
        LET rest == Undouble(Tail(s), q)
        IN [ok |-> rest.ok, value |-> <<s[1]>> \o rest.value]
    ELSE IF Len(s) >= 2 /\ s[2] = q THEN
        LET rest == Undouble(Tail(Tail(s)), q)
        IN [ok |-> rest.ok, value |-> <<q>> \o rest.value]
    ELSE [ok |-> FALSE, value |-> <<>>]

\* standard SQL reading of a single-quoted literal
ParseLiteral(text) ==
    IF Len(text) >= 2 /\ text[1] = SQ /\ text[Len(text)] = SQ
    THEN Undouble(SubSeq(text, 2, Len(text) - 1), SQ)
    ELSE [ok |-> FALSE, value |-> <<>>]

\* C12: for every string s, with any type hint, formatValue(s) is a
\* single-quoted literal that standard SQL literal reading maps back to s.
C12_StringRoundTrip ==
    (FormatValueReturned /\ call.value.kind = "string") =>
        /\ ~result.threw
        /\ ParseLiteral(result.text) = [ok |-> TRUE, value |-> call.value.txt]

\* C12 witness: a string with two single quotes and a backslash was formatted
C12_Witness ==
    /\ FormatValueReturned
    /\ call.value = Str(<<SQ, "\\", SQ>>)
    /\ result.text = <<SQ, SQ, SQ, "\\", SQ, SQ, SQ>>

QuoteIdentifierReturned == pc = "returned" /\ "identifier" \in DOMAIN call

\* the number of elements of s equal to c
Count(s, c) == Cardinality({i \in 1..Len(s) : s[i] = c})

\* C13: for every identifier, the text quoteIdentifier returns begins and
\* ends with a double quote, has two double quotes inside for each double
\* quote of the identifier and nothing else added, and reading the inside
\* with doubled quotes as one gives the identifier again.
C13_QuoteIdentifier ==
    QuoteIdentifierReturned =>
        LET text == result.text
            inside == SubSeq(text, 2, Len(text) - 1)
        IN /\ ~result.threw
           /\ Len(text) >= 2
           /\ text[1] = DQ
           /\ text[Len(text)] = DQ
           /\ Count(inside, DQ) = 2 * Count(call.identifier, DQ)
           /\ Len(inside) = Len(call.identifier) + Count(call.identifier, DQ)
           /\ Undouble(inside, DQ) = [ok |-> TRUE, value |-> call.identifier]

\* C13 witness: an identifier that begins and ends with a double quote was
\* quoted
C13_Witness ==
    /\ QuoteIdentifierReturned
    /\ call.identifier = <<DQ, "a", DQ>>
    /\ result.text = <<DQ, DQ, DQ, "a", DQ, DQ, DQ>>

\* C14: with any type hint, formatValue returns exactly NULL for null, for
\* undefined, for NaN, for +Infinity and for -Infinity, and for a finite
\* number it returns the decimal text of the number, which is not NULL.
C14_NullAndNumbers ==
    FormatValueReturned =>
        /\ call.value \in {Null, Undefined, NaN, PosInfinity, NegInfinity} =>
              result = [threw |-> FALSE, text |-> <<"NULL">>]
        /\ call.value.kind = "number" =>
              /\ ~result.threw
              /\ result.text # <<"NULL">>
              /\ call.value.num = 0 => result.text = <<"0">>
              /\ call.value.num = 42 => result.text = <<"4", "2">>
              /\ call.value.num = -7 => result.text = <<"-", "7">>
              /\ \A i \in 1..Len(result.text) :
                    result.text[i] \in Range(Digits) \/ (i = 1 /\ result.text[i] = "-")

\* C14 witness: -Infinity was formatted with the hint of an array column
C14_Witness ==
    /\ FormatValueReturned
    /\ call.value = NegInfinity
    /\ call.tableName = TTags
    /\ call.columnName = CLabels
    /\ columnTypes = ElementTypes
    /\ result.text = <<"NULL">>

----------------------------------------------------------------------------
(* Properties of the remote requests of a run *)

RpcOp == "discoverTablesViaSupabase: get_all_tables"

\* the requests of one kind that have ended, in order
RequestsOf(op) == SelectSeq(requests, LAMBDA q : q.op = op)

PageOp == "extractTableData: page"

\* the page requests of a table that have ended, in order
PagesOf(name) == SelectSeq(requests, LAMBDA q : q.op = PageOp /\ q.table = name)

\* C16: when a page request of a table reports an error, on the first page
\* or a later one, that request is the last one sent for the table, the
\* error is raised out of extractTableData to extractAllData, and once the
\* table is done its dataset is the empty sequence, whatever the earlier
\* pages brought.
C16_PageErrorDropsTable ==
    \A j \in 1..Len(tables) :
        LET name == tables[j].name
            pages == PagesOf(name)
        IN (\E i \in 1..Len(pages) : pages[i].outcome = "error") =>
              /\ pages[Len(pages)].outcome = "error"
              /\ \A i \in 1..(Len(pages) - 1) : pages[i].outcome = "ok"
              /\ Len(Requests(name)) = Len(pages)
              /\ ~Extracted(j) =>
                    /\ outstanding = 0
                    /\ pc = "ead_catch"
                    /\ exc = PageOp
                    /\ xi = j
              /\ Extracted(j) =>
                    /\ Failed(name)
                    /\ name \in DOMAIN allData
                    /\ allData[name] = <<>>

\* C16 witness: the third page of a table failed after two full pages, and
\* the table was recorded with no rows
C16_Witness ==
    \E j \in 1..Len(tables) :
        LET pages == PagesOf(tables[j].name)
        IN /\ Extracted(j)
           /\ Len(pages) = 3
           /\ pages[3].outcome = "error"
           /\ pages[3].from = 2 * limit
           /\ allData[tables[j].name] = <<>>

----------------------------------------------------------------------------
(* Properties of the INSERT statements *)

\* the text from place p up to, not including, the next occurrence of pat
UpTo(text, p, pat) ==
    LET q == CHOOSE x \in {y \in Positions(text, pat) : y >= p} :
                \A y \in Positions(text, pat) : y >= p => x <= y
    IN SubSeq(text, p, q - 1)

\* C17: for every listed table with a non-empty dataset the returned text
\* has exactly one INSERT statement per row, in row order; the column list
\* of the r-th statement is the quoted keys of the r-th row in key order,
\* its value list is the formatted values of that row in the same order and
\* of the same length, so rows with different keys get different lists.
C17_OneInsertPerRow ==
    GenerateReturned =>
        /\ ~result.threw
        /\ \A i \in 1..Len(call.tables) :
              LET table == call.tables[i]
                  rows == IF NoDataset(table) THEN <<>> ELSE call.data[table.name]
                  opening == InsertOpening(table)
              IN /\ CountOcc(result.text, opening) = Len(rows)
                 /\ \A r \in 1..Len(rows) :
                       LET row == rows[r].items
                           p == NthPos(result.text, opening, r) + Len(opening)
                           columns == UpTo(result.text, p, <<") VALUES (">>)
                           values == UpTo(result.text, p + Len(columns) + 1, <<");", NL>>)
                       IN /\ columns = Join([k \in 1..Len(row) |->
                                               quoteIdentifier(row[k].txt)], <<", ">>)
                          /\ values = Join([k \in 1..Len(row) |->
                                    formatValue(row[k].items[1], table.name, row[k].txt).text],
                                  <<", ">>)
                          /\ Count(columns, ", ") = Len(row) - 1
                          /\ Count(values, ", ") = Len(row) - 1

\* C17 witness: a table whose first row has two keys and whose second row
\* has one of them got two INSERT statements
C17_Witness ==
    /\ GenerateReturned
    /\ \E i \in 1..Len(call.tables) :
          LET table == call.tables[i]
          IN /\ table.name = TNotes
             /\ ~NoDataset(table)
             /\ Len(call.data[TNotes]) = 2
             /\ Len(call.data[TNotes][1].items) = 2
             /\ Len(call.data[TNotes][2].items) = 1
             /\ CountOcc(result.text, InsertOpening(table)) = 2
             /\ Contains(result.text,
                    InsertOpening(table) \o quoteIdentifier(CMeta) \o <<") VALUES (">>)

----------------------------------------------------------------------------
(* Properties of formatValue on array columns *)

\* the value is a sequence of strings
IsStringArray(value) ==
    value.kind = "array" /\ \A i \in 1..Len(value.items) : value.items[i].kind = "string"

\* C18: when the type stored for the column is text[] and the value is a
\* sequence of strings, formatValue returns ARRAY[ then the elements, each
\* in single quotes with its single quotes doubled, separated by commas in
\* the order of the sequence, then ]::text[]; ["a","b"] gives
\* ARRAY['a','b']::text[].
C18_TextArray ==
    (/\ FormatValueReturned
     /\ IsStringArray(call.value)
     /\ columnTypeOf(call.tableName, call.columnName) = TypeTextArray) =>
        LET items == call.value.items
            n == Len(items)
            element(i) == <<SQ>> \o Concat([k \in 1..Len(items[i].txt) |->
                                   IF items[i].txt[k] = SQ THEN <<SQ, SQ>>
                                   ELSE <<items[i].txt[k]>>]) \o <<SQ>>
            RECURSIVE list(_)
            list(i) == IF i > n THEN <<>>
                       ELSE element(i) \o (IF i < n THEN <<",">> ELSE <<>>) \o list(i + 1)
        IN /\ ~result.threw
           /\ result.text = <<"ARRAY[">> \o list(1) \o <<"]::", "t", "e", "x", "t", "[", "]">>
           /\ call.value = Arr(<<Str(<<"a">>), Str(<<"b">>)>>) =>
                 result.text = <<"ARRAY[", SQ, "a", SQ, ",", SQ, "b", SQ, "]::",
                                 "t", "e", "x", "t", "[", "]">>

\* C18 witness: ["a","b"] was formatted for a text[] column
C18_Witness ==
    /\ FormatValueReturned
    /\ call.value = Arr(<<Str(<<"a">>), Str(<<"b">>)>>)
    /\ columnTypeOf(call.tableName, call.columnName) = TypeTextArray
    /\ result.text[1] = "ARRAY["

----------------------------------------------------------------------------
(* Properties of failure handling *)

\* the requests that did not succeed
Unsuccessful == SelectSeq(requests, LAMBDA q : q.outcome # "ok")

\* what makes a request the same request: the step that issues it, the table
\* and the row offset
Identity(q) == [op |-> q.op, table |-> q.table, from |-> q.from]

\* an error is on its way to the caller, or has ended the run in main
Raised == IF exc # NoError \/ pc = "exited" THEN 1 ELSE 0

\* C19: no request that did not succeed is issued again later in the run,
\* no page request is sent twice, and at every moment the failures so far
\* are as many as the failures absorbed (one console line each) plus the one
\* that is being raised or has ended the run; once an error has reached
\* main nothing more is requested.
C19_NoRetry ==
    /\ \A i, j \in 1..Len(requests) :
          (i < j /\ requests[i].outcome # "ok") =>
             Identity(requests[j]) # Identity(requests[i])
    /\ \A i, j \in 1..Len(pageLog) : i < j => pageLog[i] # pageLog[j]
    /\ Len(Unsuccessful) = Len(consoleLog) + Raised
    /\ pc \in {"main_catch", "exited"} =>
          /\ outstanding = 0
          /\ requests[Len(requests)].outcome = "error"

\* C19 witness: a column-type lookup and a page request failed and were
\* absorbed, then a catalog query of extractSchema failed and ended the run
C19_Witness ==
    /\ pc = "exited"
    /\ Len(Unsuccessful) = 3
    /\ Len(consoleLog) = 2
    /\ \E i, j \in 1..Len(requests) :
          /\ requests[i].op = "fetchColumnTypes: connect"
          /\ requests[i].outcome = "error"
          /\ requests[j].op = PageOp
          /\ requests[j].outcome = "error"

----------------------------------------------------------------------------
(* Properties of the sequential run *)

\* the position of a table in the discovery sequence
IndexOf(name) == CHOOSE j \in 1..Len(tables) : tables[j].name = name

\* C20: at every moment of a run at most one privileged connection is open
\* and at most one page request is outstanding; a connection is opened only
\* on a client just created, when no connection is open; a page request is
\* outstanding only for the table being extracted, with no connection open;
\* the page requests go table after table in discovery order, so the tables
\* after the current one have none yet and the ones before it are done.
C20_Sequential ==
    /\ openConns \in {0, 1}
    /\ outstanding \in {0, 1}
    /\ (openConns = 1) <=> (client = "connected")
    /\ pc \in {"dpg_connect", "fct_connect", "xs_connect"} =>
          (client = "created" /\ openConns = 0)
    /\ (outstanding = 1) <=> (pc = "etd_wait")
    /\ pc \in {"etd_page", "etd_wait", "ead_catch"} =>
          /\ openConns = 0
          /\ xi \in 1..Len(tables)
          /\ \A k \in 1..Len(tables) :
                k > xi => (Requests(tables[k].name) = <<>>
                           /\ tables[k].name \notin DOMAIN allData)
          /\ \A k \in 1..Len(tables) : k < xi => tables[k].name \in DOMAIN allData
    /\ pc = "etd_wait" => pageLog[Len(pageLog)].table = tables[xi].name
    /\ \A i, j \in 1..Len(pageLog) :
          i < j => IndexOf(pageLog[i].table) <= IndexOf(pageLog[j].table)

\* C20 witness: with privileged access, a page request of the second table
\* is outstanding after the connections of discovery and of two column-type
\* lookups were opened and closed
C20_Witness ==
    /\ databaseUrl
    /\ pc = "etd_wait"
    /\ xi = 2
    /\ outstanding = 1
    /\ openConns = 0
    /\ Len(SelectSeq(requests, LAMBDA q : q.outcome = "ok" /\
               q.op \in {"discoverTablesViaPg: connect", "fetchColumnTypes: connect"})) = 3

----------------------------------------------------------------------------
(* Properties of formatValue on structured values *)

\* the value holds, at any depth, something JSON.stringify raises on: a
\* reference back to itself or a bigint
RECURSIVE Unserializable(_)
Unserializable(v) ==
    \/ v.kind \in {"cyclic", "bigint"}
    \/ /\ v.kind \in {"array", "object", "entry"}
       /\ \E i \in 1..Len(v.items) : Unserializable(v.items[i])

\* the call is on an object or array that is not written as an array literal
StructuredCall ==
    /\ FormatValueReturned
    /\ call.value.kind \in {"array", "object", "cyclic"}
    /\ ~(/\ call.value.kind = "array"
         /\ columnTypeOf(call.tableName, call.columnName) = TypeTextArray)

\* C21: for an object or array that is not written as an array literal,
\* formatValue never raises; when the value cannot be serialized to JSON it
\* returns exactly NULL; otherwise it returns a single-quoted literal that
\* reads back as the compact JSON text of the value, followed by ::jsonb.
C21_JsonOrNull ==
    StructuredCall =>
        LET text == result.text
        IN /\ ~result.threw
           /\ Unserializable(call.value) => text = <<"NULL">>
           /\ ~Unserializable(call.value) =>
                 /\ text[Len(text)] = "::jsonb"
                 /\ ParseLiteral(SubSeq(text, 1, Len(text) - 1)) =
                       [ok |-> TRUE, value |-> JSONstringify(call.value).text]
           /\ call.value = Obj(<<Entry(<<"k">>, Str(<<SQ>>))>>) =>
                 text = <<SQ, "{", DQ, "k", DQ, ":", DQ, SQ, SQ, DQ, "}", SQ, "::jsonb">>
           /\ call.value = Arr(<<Num(1), Null>>) =>
                 text = <<SQ, "[", "1", ",", "null", "]", SQ, "::jsonb">>

\* C21 witness: an object with a bigint inside was formatted as NULL
C21_Witness ==
    /\ StructuredCall
    /\ call.value = Obj(<<Entry(<<"k">>, BigInt(5))>>)
    /\ result = [threw |-> FALSE, text |-> <<"NULL">>]

----------------------------------------------------------------------------
(* Properties of the schema text *)

\* the enum query of extractSchema has been answered
EnumSectionWritten == Contains(schemaSQL, <<"-- Enum Types", NL, NL>>)

\* the CREATE TYPE statement of an enum type in the schema text: from its
\* opening to the end of the statement
CreateTypeStatement(typname) ==
    LET opening == <<"CREATE TYPE ">> \o quote_ident(typname) \o <<" AS ENUM (">>
    IN UpTo(schemaSQL, FirstPos(schemaSQL, opening), <<");">>)

\* C22: for every enum type of the public schema the schema text has
\* exactly one CREATE TYPE statement, every label of the type stands in it
\* once, as a quoted literal, and a label with a smaller sort order stands
\* before each label with a larger one, in whatever order the catalog
\* returned the rows.
C22_EnumLabelOrder ==
    /\ pc \in {"xs_table", "xs_index"} => EnumSectionWritten
    /\ EnumSectionWritten =>
          \A n \in {PgEnum[i].typname : i \in 1..Len(PgEnum)} :
             LET opening == <<"CREATE TYPE ">> \o quote_ident(n) \o <<" AS ENUM (">>
                 stmt == CreateTypeStatement(n)
                 labels == {r \in Range(PgEnum) : r.typname = n}
             IN /\ Cardinality(Positions(schemaSQL, opening)) = 1
                /\ Count(stmt, ", ") = Cardinality(labels) - 1
                /\ \A a \in labels :
                      Cardinality(Positions(stmt, quote_literal(a.enumlabel))) = 1
                /\ \A a, b \in labels :
                      a.enumsortorder < b.enumsortorder =>
                         FirstPos(stmt, quote_literal(a.enumlabel))
                            < FirstPos(stmt, quote_literal(b.enumlabel))

\* C22 witness: the document of a run has the statement with the three
\* labels in sort order, which is not the order of the catalog rows
C22_Witness ==
    /\ SqlFile \in DOMAIN files
    /\ databaseUrl
    /\ PgEnum[1].enumsortorder > PgEnum[2].enumsortorder
    /\ Contains(files[SqlFile],
          <<"CREATE TYPE ", "l", "v", " AS ENUM (", SQ, "l", "o", SQ, ", ",
            SQ, "m", SQ, SQ, SQ, ", ", SQ, "h", "i", SQ, ");">>)

----------------------------------------------------------------------------
(* Properties of the DROP TABLE statements *)

\* the dataset of a listed table has rows
HasRows(table) == table.name \in DOMAIN allData /\ Len(allData[table.name]) > 0

\* the DROP TABLE and INSERT statements of the listed tables in the text
\* returned by a call with the given drop-mode
DropsAsCalled(text, dropMode) ==
    /\ Count(text, "DROP TABLE IF EXISTS ")
          = IF dropMode THEN Cardinality({i \in 1..Len(tables) : HasRows(tables[i])})
            ELSE 0
    /\ \A i \in 1..Len(tables) :
          LET drops == Positions(text, DropStatement(tables[i]))
              inserts == Positions(text, InsertOpening(tables[i]))
          IN /\ Cardinality(drops)
                  = IF dropMode /\ HasRows(tables[i]) THEN 1 ELSE 0
             /\ Cardinality(inserts)
                  = IF HasRows(tables[i]) THEN Len(allData[tables[i].name]) ELSE 0
             /\ \A d \in drops :
                   /\ inserts # {}
                   /\ \A p \in inserts :
                         /\ d < p
                         /\ Count(SubSeq(text, d, p), "CREATE TABLE IF NOT EXISTS ") = 0

\* C23: the text of the drop-mode call of main has one DROP TABLE statement
\* for each listed table whose dataset has rows and none for any other; the
\* statement stands before every INSERT of its table with no CREATE TABLE
\* between the two; the text the call of generateReconstructionSQL builds,
\* and the document written from it, have no DROP TABLE statement.
C23_DropTable ==
    /\ Count(sql, "DROP TABLE IF EXISTS ") = 0
    /\ SqlFile \in DOMAIN files => DropsAsCalled(files[SqlFile], FALSE)
    /\ InsertsFile \in DOMAIN files => DropsAsCalled(files[InsertsFile], TRUE)

\* C23 witness: a run wrote both documents for a table with rows and a
\* table without; the schema part of the first has a CREATE TABLE statement
C23_Witness ==
    /\ SqlFile \in DOMAIN files
    /\ InsertsFile \in DOMAIN files
    /\ Count(files[SqlFile], "CREATE TABLE IF NOT EXISTS ") > 0
    /\ \E i, j \in 1..Len(tables) :
          /\ HasRows(tables[i])
          /\ ~HasRows(tables[j])
          /\ Contains(files[InsertsFile], DropStatement(tables[i]))
          /\ Contains(files[SqlFile], InsertOpening(tables[i]))

----------------------------------------------------------------------------
(* Properties of the column-type prefetch *)

FetchOps == {"fetchColumnTypes: connect", "fetchColumnTypes: query"}

\* the requests of the column-type lookup of a table that have ended
LookupsOf(name) ==
    SelectSeq(requests, LAMBDA q : q.op \in FetchOps /\ q.table = name)

\* the column-type lookup of a table failed, at connect or at the query
LookupFailed(name) ==
    \E k \in 1..Len(LookupsOf(name)) : LookupsOf(name)[k].outcome # "ok"

\* the warnings of the prefetch loop for a table
LookupWarnings(name) ==
    SelectSeq(consoleLog, LAMBDA e :
        e.line = "Warning: Could not fetch column types" /\ e.table = name)

\* the prefetch loop of extractAllData has ended
PrefetchDone == xi >= 1

\* C24: with a privileged connection string, a column-type lookup that
\* fails at connect or at the query raises nothing out of the prefetch loop:
\* one warning is printed, the lookups of the later tables still run, each
\* once, and when the loop has ended the map has the catalog's types for
\* exactly the tables whose lookup succeeded and no entry for the others,
\* and stays so until the end of the run; every lookup request ends before
\* the first page request is sent; every table, the failed ones included,
\* gets its page requests and, unless a page request fails, all its rows.
C24_LookupFailureAbsorbed ==
    /\ ~databaseUrl =>
          columnTypes = EmptyMap /\ \A k \in 1..Len(requests) : requests[k].op \notin FetchOps
    /\ pc \in {"ead_types", "fct_connect", "fct_query"} => exc = NoError
    /\ databaseUrl =>
        /\ PrefetchDone => ti = Len(tables) + 1
        /\ \A j \in 1..Len(tables) :
              LET name == tables[j].name
              IN IF j < ti
                 THEN /\ Len(LookupsOf(name)) \in {1, 2}
                      /\ LookupsOf(name)[1].op = "fetchColumnTypes: connect"
                      /\ Len(LookupsOf(name)) = 2 =>
                            /\ LookupsOf(name)[1].outcome = "ok"
                            /\ LookupsOf(name)[2].op = "fetchColumnTypes: query"
                      /\ Len(LookupWarnings(name))
                            = IF LookupFailed(name) THEN 1 ELSE 0
                      /\ IF LookupFailed(name)
                         THEN name \notin DOMAIN columnTypes
                         ELSE /\ name \in DOMAIN columnTypes
                              /\ columnTypes[name]
                                   = ColumnTypeMap(name, tables[j].schema)
                 ELSE /\ name \notin DOMAIN columnTypes
                      /\ j > ti => LookupsOf(name) = <<>>
        /\ \A k, l \in 1..Len(requests) :
              (requests[k].op = PageOp /\ requests[l].op \in FetchOps) => l < k
        /\ outstanding > 0 => PrefetchDone
        /\ \A j \in 1..Len(tables) :
              Extracted(j) =>
                 /\ PagesOf(tables[j].name) # <<>>
                 /\ ~Failed(tables[j].name) =>
                       Len(allData[tables[j].name]) = SizeOf(tables[j].name)

\* C24 witness: a run ended well in which the lookup of the first table
\* failed, the lookup of a later table gave its types, and the rows of the
\* first table were extracted
C24_Witness ==
    /\ databaseUrl
    /\ pc = "done"
    /\ Len(tables) >= 2
    /\ LookupFailed(tables[1].name)
    /\ tables[1].name \notin DOMAIN columnTypes
    /\ tables[2].name \in DOMAIN columnTypes
    /\ Len(allData[tables[1].name]) > 0

----------------------------------------------------------------------------
(* Properties of the end of a run *)

DiscoveryOps ==
    {"discoverTablesViaPg: connect", "discoverTablesViaPg: query", RpcOp}

\* the requests whose failure is raised to main: those of discoverTablesViaPg
\* and of extractSchema
RaisingOps ==
    {"discoverTablesViaPg: connect", "discoverTablesViaPg: query",
     "extractSchema: connect", "extractSchema: enumQuery",
     "extractSchema: createTableQuery", "extractSchema: indexQuery"}

\* discovery or generation has raised
RaisedToMain ==
    \/ \E k \in 1..Len(requests) :
          requests[k].op \in RaisingOps /\ requests[k].outcome # "ok"
    \/ exc = "formatValue"
    \/ pc = "main_catch"

\* C25: as long as no table is discovered nothing but discovery is
\* requested, nothing of extractAllData or generateReconstructionSQL has run
\* and no file is written, and a run whose discovery returned the empty
\* sequence has ended with exit code 0; once discovery or generation has
\* raised, the run is in the finally step of the raising function, in the
\* catch of main, or has exited with code 1, and no file was or is written;
\* a run exits with code 1 in no other case.
C25_EmptyOrRaised ==
    /\ Len(tables) = 0 =>
          /\ pc \in {"main", "dpg_connect", "dpg_query", "dpg_end", "rpc",
                      "main_found", "main_catch", "done", "exited"}
          /\ \A k \in 1..Len(requests) : requests[k].op \in DiscoveryOps
          /\ files = EmptyMap
          /\ sql = <<>> /\ schemaSQL = <<>>
          /\ allData = EmptyMap /\ columnTypes = EmptyMap
          /\ ti = 0 /\ xi = 0 /\ pageLog = <<>>
          /\ pc = "done" => exitCode = 0
    /\ RaisedToMain =>
          /\ pc \in {"dpg_end", "xs_end", "main_catch", "exited"}
          /\ files = EmptyMap
          /\ \A k \in 1..(Len(requests) - 1) :
                requests[k].op \in RaisingOps => requests[k].outcome = "ok"
    /\ pc = "exited" <=> exitCode = 1
    /\ pc = "exited" => files = EmptyMap /\ Len(Unsuccessful) >= 1
    /\ SqlFile \in DOMAIN files =>
          Len(tables) > 0 /\ pc \in {"main_inserts", "done"}

\* C25 witness: a run over an empty public schema has ended: the catalog
\* was asked, answered with no row, and nothing else happened
C25_Witness ==
    /\ pc = "done"
    /\ databaseUrl
    /\ tables = <<>>
    /\ Len(requests) = 2
    /\ requests[2] = Request("discoverTablesViaPg: query", <<>>, 0, "ok")
    /\ files = EmptyMap
    /\ exitCode = 0

\* a run has exited with code 1 after extractSchema raised, with the data
\* of a table extracted and no file written
C25_WitnessRaised ==
    /\ pc = "exited"
    /\ exitCode = 1
    /\ Len(tables) > 0
    /\ \E n \in DOMAIN allData : Len(allData[n]) > 0
    /\ requests[Len(requests)].op = "extractSchema: indexQuery"
    /\ files = EmptyMap

====
